---- MODULE Spec2Model ----
(***************************************************************************)
(* Session orchestration engine of the download server (server index.ts):  *)
(* the session registry (sessionData), the extraction worker               *)
(* (downloadVideoOrAudio with its metadata pre-fetch extractMetadata), the *)
(* batch orchestrator (processBatchDownload), the progress channel         *)
(* (wsConnections / sendWebSocketMessage) and the cancellation controller  *)
(* (cancelSession).                                                        *)
(*                                                                         *)
(* One session id is modelled.  Node runs every callback to completion, so *)
(* each action is one callback (event handler, timer callback, request     *)
(* handler) together with the promise continuations it releases: a         *)
(* continuation is a microtask and runs before the next callback.          *)
(*                                                                         *)
(* Time.  Child processes take arbitrary time, so the long timers (45 s    *)
(* metadata timeout, 60 s listing timeout, 10 min download timeout) may    *)
(* fire at any moment relative to process events.  The short timers are    *)
(* ordered: whatever was already due within one second when cancelSession  *)
(* armed its 5 s removal timer (a pending 'close' event, the 1 s settle    *)
(* delay, the 1 s cancellation-check interval) runs before that removal.   *)
(* clock is a logical clock that stamps record creation and file writes,   *)
(* so that mtime >= startTime means "written after the record was made".   *)
(* Everything of a run happens within the 5 minute window of the sweep.    *)
(* One step of clock stands for at most a minute; in the session           *)
(* specifications no file reaches the age bound of 5 within the bounds.    *)
(* The retention and cancellation-frame specifications (SpecRetention,     *)
(* SpecCancelFrame) measure time: there clock is Date.now in minutes since *)
(* the server started, and mtime the minute a file was last written        *)
(* (negative: before the start).                                           *)
(***************************************************************************)
EXTENDS Naturals, Integers, Sequences, FiniteSets, TLC

\* ------------------------------------------------------------------ bounds
MaxItems == 2
MaxCancels == 2
MaxConns == 1
MaxTimeouts == 1
MaxSubscribers == 2
MaxTitleLen == 4     \* longest title given to sanitizeFilename on its own
MaxLength == 9       \* largest maxLength given to sanitizeFilename on its own
MaxMinutes == 16     \* horizon of the retention specification, in minutes

\* -------------------------------------------------------- program constants
PatternLen == 30
SanitizeMaxLength == 200
MaxFileAge == 5             \* maxFileAge of cancelSession, in minutes
RetentionMinutes == 10      \* cleanupOldFiles(10)
SweepIntervalMinutes == 5   \* setInterval(..., 5 * 60 * 1000)

RawTitles == { <<"a", "?">> }
NoTitle == << >>
Untitled == <<"u", "n", "t", "i", "t", "l", "e", "d">>
InvalidChars == {"<", ">", ":", "\"", "/", "\\", "|", "?", "*"}
MediaExtensions == {"mp3", "mp4", "webm", "m4a", "opus", "mkv", "avi", "mov"}
AudioExtensions == {"mp3", "m4a", "opus", "webm"}
ToolExtensions == {"mp3", "webm"}

VARIABLES
  sessionData,    \* the map entry of the session: 0 (absent) or an index into recs
  recs,           \* every SessionData object ever created (closures keep old ones)
  clock,          \* logical clock (Date.now / mtime)
  delTimers,      \* pending 5 s removal timers, oldest first; each holds what must run first
  procs,          \* every child process ever spawned
  storage,        \* the download directory: set of [base, ext, mtime]
  wk,             \* the worker run of each item
  batch,          \* processBatchDownload's frame
  wsConnections,  \* the map entry of the session: 0 or an index into conns
  conns,          \* every WebSocket connection of the session
  published,      \* every message handed to sendWebSocketMessage, in order
  cancelCalls,    \* number of cancelSession calls so far
  timeouts,       \* number of timeout timers (45 s, 60 s, 10 min) that have fired
  call            \* a call of sanitizeFilename on its own: arguments and results

vars == << sessionData, recs, clock, delTimers, procs, storage, wk, batch,
           wsConnections, conns, published, cancelCalls, timeouts, call >>

\* The whole state as one value; handlers are functions from state to state.
Cur ==
  [ sessionData |-> sessionData, recs |-> recs, clock |-> clock,
    delTimers |-> delTimers, procs |-> procs, storage |-> storage, wk |-> wk,
    batch |-> batch, wsConnections |-> wsConnections, conns |-> conns,
    published |-> published, cancelCalls |-> cancelCalls, timeouts |-> timeouts,
    call |-> call ]

Commit(s) ==
  /\ sessionData' = s.sessionData
  /\ recs' = s.recs
  /\ clock' = s.clock
  /\ delTimers' = s.delTimers
  /\ procs' = s.procs
  /\ storage' = s.storage
  /\ wk' = s.wk
  /\ batch' = s.batch
  /\ wsConnections' = s.wsConnections
  /\ conns' = s.conns
  /\ published' = s.published
  /\ cancelCalls' = s.cancelCalls
  /\ timeouts' = s.timeouts
  /\ call' = s.call

\* ------------------------------------------------------------- strings
Min(a, b) == IF a < b THEN a ELSE b

Substring(str, from, to) ==
  IF to <= from THEN << >> ELSE SubSeq(str, from + 1, Min(to, Len(str)))

StartsWith(str, p) ==
  /\ Len(p) <= Len(str)
  /\ SubSeq(str, 1, Len(p)) = p

Includes(str, p) ==
  \E k \in 0..Len(str) :
    /\ k + Len(p) <= Len(str)
    /\ SubSeq(str, k + 1, k + Len(p)) = p

\* mutant: no character is removed
RemoveNothing(str) == str

RECURSIVE RemoveInvalid(_)
RemoveInvalid(str) ==
  IF str = << >> THEN << >>
  ELSE IF Head(str) \in InvalidChars THEN RemoveInvalid(Tail(str))
  ELSE << Head(str) >> \o RemoveInvalid(Tail(str))

\* the characters of the class \s that titles are drawn with
Whitespace == {" ", "\t"}

\* .replace(/\s+/g, ' '): every run of whitespace becomes one space
RECURSIVE CollapseSpaces(_)
CollapseSpaces(str) ==
  IF str = << >> THEN << >>
  ELSE IF Head(str) \in Whitespace
  THEN IF Len(str) >= 2 /\ Head(Tail(str)) \in Whitespace
       THEN CollapseSpaces(Tail(str))
       ELSE << " " >> \o CollapseSpaces(Tail(str))
  ELSE << Head(str) >> \o CollapseSpaces(Tail(str))

RECURSIVE TrimLeft(_)
TrimLeft(str) ==
  IF str # << >> /\ Head(str) \in Whitespace THEN TrimLeft(Tail(str)) ELSE str

RECURSIVE TrimRight(_)
TrimRight(str) ==
  IF str # << >> /\ str[Len(str)] \in Whitespace
  THEN TrimRight(SubSeq(str, 1, Len(str) - 1)) ELSE str

Trim(str) == TrimRight(TrimLeft(str))

sanitizeFilenameTo(title, maxLength) ==
  LET stripped == Trim(CollapseSpaces(RemoveInvalid(title)))
      cut == IF Len(stripped) > maxLength
             THEN Trim(Substring(stripped, 0, maxLength)) ELSE stripped
  IN IF cut = << >> THEN Untitled ELSE cut

sanitizeFilename(title) == sanitizeFilenameTo(title, SanitizeMaxLength)

\* the random per-run identifier of downloadVideoOrAudio (unique per run)
Digits == << "1", "2", "3", "4", "5", "6", "7", "8", "9" >>
SafeId(i) == << "#", Digits[i] >>

\* ------------------------------------------------------------- messages
Msg(type, current, total, successful, failed, error, by) ==
  [ type |-> type, current |-> current, total |-> total,
    successful |-> successful, failed |-> failed, error |-> error, by |-> by ]

NewConn == [ st |-> "open", delivered |-> << >> ]

\* mutant: the channel hands a message over ahead of the earlier ones
sendWebSocketMessageNewestFirst(s, m) ==
  LET ws == s.wsConnections
      t == [s EXCEPT !.published = << m >> \o @]
  IN IF ws # 0 /\ s.conns[ws].st = "open"
     THEN [t EXCEPT !.conns[ws].delivered = << m >> \o @]
     ELSE t

\* mutant: the message goes to every open connection made for the session
sendWebSocketMessageToAll(s, m) ==
  [s EXCEPT !.published = Append(@, m),
            !.conns = [c \in DOMAIN @ |->
                         IF @[c].st = "open"
                         THEN [@[c] EXCEPT !.delivered = Append(@, m)]
                         ELSE @[c]]]

sendWebSocketMessage(s, m) ==
  LET ws == s.wsConnections
      t == [s EXCEPT !.published = Append(@, m)]
  IN IF ws # 0 /\ s.conns[ws].st = "open"
     THEN [t EXCEPT !.conns[ws].delivered = Append(@, m)]
     ELSE t

\* ------------------------------------------------------------- registry
NewRec(now) ==
  [ cancelled |-> FALSE, processes |-> {}, files |-> {},
    startTime |-> now, expectedFilePatterns |-> {} ]

\* getSessionData(sessionId): the state after the call; Data of that state is
\* the object the call returns.
getSessionData(s) ==
  IF s.sessionData = 0
  THEN [s EXCEPT !.recs = Append(@, NewRec(s.clock)),
                 !.sessionData = Len(s.recs) + 1,
                 !.clock = @ + 1]
  ELSE s

Data(s) == s.recs[s.sessionData]

\* mutant: no signal is sent
KillIgnored(s, p) == s

\* child.kill('SIGTERM'): the signal is sent (and killed set) while node still
\* holds the handle, that is until the exit has been processed.
Kill(s, p) ==
  IF s.procs[p].st \in {"running", "exited"}
  THEN [s EXCEPT !.procs[p].killed = TRUE]
  ELSE s

RECURSIVE KillAll(_, _)
KillAll(s, ps) ==
  IF ps = {} THEN s
  ELSE LET p == CHOOSE x \in ps : TRUE
       IN KillAll(IF s.procs[p].killed THEN s ELSE Kill(s, p), ps \ {p})

\* what is due within a second and therefore runs before a removal timer
\* armed now: pending close events, settle delays, cancellation-check intervals
ShortPending(s) ==
  { <<"close", p>> : p \in { q \in DOMAIN s.procs : s.procs[q].st = "exited" } }
  \cup { <<"settle", i>> : i \in { j \in DOMAIN s.wk : s.wk[j].settle } }
  \cup { <<"ival", i>> : i \in { j \in DOMAIN s.wk : s.wk[j].ival } }

Ran(s, b) ==
  [s EXCEPT !.delTimers = [k \in DOMAIN @ |-> @[k] \ {b}]]

\* ------------------------------------------------------------- cancelSession
\* mutant: the sweep of cancelSession takes every file for a media file
isAnyFile(f) == TRUE

FileName(f) == << f.base, f.ext >>

matchesPattern(f, patterns) ==
  \E pattern \in patterns :
    \/ StartsWith(f.base, pattern)
    \/ Includes(f.base, pattern)
    \/ Includes(pattern, Substring(f.base, 0, Min(PatternLen, Len(f.base))))

wasCreatedDuringSession(f, data, now) ==
  now - f.mtime < MaxFileAge /\ f.mtime >= data.startTime

isMediaFile(f) == f.ext \in MediaExtensions

SweptByCancel(f, data, now) ==
  /\ FileName(f) \notin data.files
  /\ matchesPattern(f, data.expectedFilePatterns) \/ wasCreatedDuringSession(f, data, now)
  /\ isMediaFile(f)

\* mutant: the registered files are left in place
cancelSessionKeepsFiles(s) ==
  LET s1 == getSessionData(s)
      r == s1.sessionData
      s2 == [s1 EXCEPT !.recs[r].cancelled = TRUE]
      s3 == KillAll(s2, s2.recs[r].processes)
      data == s3.recs[r]
      s5 == [s3 EXCEPT !.storage = { f \in @ : ~SweptByCancel(f, data, s3.clock) }]
      s6 == sendWebSocketMessage(s5,
              Msg("error", 0, 0, 0, 0, "Download cancelled by user", "cancelSession"))
  IN [s6 EXCEPT !.delTimers = Append(@, ShortPending(s6)),
                !.cancelCalls = @ + 1]

cancelSession(s) ==
  LET s1 == getSessionData(s)
      r == s1.sessionData
      s2 == [s1 EXCEPT !.recs[r].cancelled = TRUE]
      s3 == KillAll(s2, s2.recs[r].processes)
      data == s3.recs[r]
      registered == { f \in s3.storage : FileName(f) \in data.files }
      s4 == [s3 EXCEPT !.storage = @ \ registered]
      s5 == [s4 EXCEPT !.storage = { f \in @ : ~SweptByCancel(f, data, s3.clock) }]
      s6 == sendWebSocketMessage(s5,
              Msg("error", 0, 0, 0, 0, "Download cancelled by user", "cancelSession"))
  IN [s6 EXCEPT !.delTimers = Append(@, ShortPending(s6)),
                !.cancelCalls = @ + 1]

\* the callback of the removal timer: sessionData.delete(sessionId)
RemoveSession ==
  /\ delTimers # << >>
  /\ Head(delTimers) = {}
  /\ sessionData' = 0
  /\ delTimers' = Tail(delTimers)
  /\ UNCHANGED << recs, clock, procs, storage, wk, batch, wsConnections, conns,
                  published, cancelCalls, timeouts, call >>

\* ------------------------------------------------------------- processes
NewProc(kind, item, late) ==
  [ kind |-> kind, item |-> item, st |-> "running", killed |-> FALSE,
    code |-> 0, ffErr |-> FALSE,   \* exit code and stderr of an exit not yet handled
    wrote |-> FALSE, hooked |-> TRUE,
    late |-> late ]   \* history: spawned after a cancelSession call

\* a child whose exit node has processed: nothing reads its fields any more
Closed(s, p) ==
  [s EXCEPT !.procs[p].st = "closed", !.procs[p].killed = FALSE,
            !.procs[p].code = 0, !.procs[p].ffErr = FALSE, !.procs[p].wrote = FALSE]

spawn(s, kind, item) ==
  [s EXCEPT !.procs = Append(@, NewProc(kind, item, s.cancelCalls > 0))]

\* data.processes.add(p) on the object getSessionData returns
Register(s, p) ==
  LET s1 == getSessionData(s)
  IN [s1 EXCEPT !.recs[s1.sessionData].processes = @ \cup {p}]

\* data.processes.delete(p) on the object getSessionData returns
Unregister(s, p) ==
  LET s1 == getSessionData(s)
  IN [s1 EXCEPT !.recs[s1.sessionData].processes = @ \ {p}]

IdleWorker ==
  [ started |-> FALSE, metaProc |-> 0, metaDone |-> FALSE, metaTimer |-> FALSE,
    ival |-> FALSE, fileName |-> << >>, dlProc |-> 0, downloadComplete |-> FALSE,
    timer |-> FALSE, settle |-> FALSE, outcome |-> "none", outFile |-> << >> ]

IdleBatch ==
  [ pc |-> "idle", i |-> 0, total |-> 0, successful |-> 0, failed |-> 0,
    data |-> 0, plProc |-> 0, plTimer |-> FALSE, plDone |-> FALSE,
    videos |-> -1 ]   \* videos.length once the listing has resolved

EndBatch(s, how) == [s EXCEPT !.batch.pc = how]

\* --------------------------------------------- worker and batch continuations
RECURSIVE LoopTop(_), StartWorker(_, _), AfterMetadata(_, _, _),
          ResolveWorker(_, _, _, _), AfterDownload(_, _)

\* mutant: a later resolve call replaces the outcome
ResolveWorkerAgain(s, i, outcome, file) ==
  LET s1 == [s EXCEPT !.wk[i].outcome = outcome, !.wk[i].outFile = file]
  IN IF s1.batch.pc = "awaiting" /\ s1.batch.i + 1 = i
     THEN AfterDownload(s1, i)
     ELSE s1

\* resolve(...) of downloadVideoOrAudio's promise: the first call settles it and
\* releases the batch loop that awaits it
ResolveWorker(s, i, outcome, file) ==
  IF s.wk[i].outcome # "none" THEN s
  ELSE LET s1 == [s EXCEPT !.wk[i].outcome = outcome, !.wk[i].outFile = file]
       IN IF s1.batch.pc = "awaiting" /\ s1.batch.i + 1 = i
          THEN AfterDownload(s1, i)
          ELSE s1

\* mutant: without a title the item fails
AfterMetadataNeedsTitle(s, i, title) ==
  LET s1 == getSessionData(s)
  IN IF Data(s1).cancelled
     THEN ResolveWorker(s1, i, "Download cancelled", << >>)
     ELSE IF title = NoTitle
     THEN ResolveWorker(s1, i, "yt-dlp failed with code", << >>)
     ELSE
       LET fileName == sanitizeFilename(title)
           pattern == Substring(fileName, 0, Min(PatternLen, Len(fileName)))
           s2 == [s1 EXCEPT !.recs[s1.sessionData].expectedFilePatterns = @ \cup {pattern},
                            !.wk[i].fileName = fileName]
           s3 == spawn(s2, "dl", i)
           yt == Len(s3.procs)
           s4 == Register([s3 EXCEPT !.wk[i].dlProc = yt], yt)
       IN IF Data(s4).cancelled
          THEN ResolveWorker(Kill([s4 EXCEPT !.procs[yt].hooked = FALSE], yt),
                             i, "Download cancelled", << >>)
          ELSE [s4 EXCEPT !.wk[i].timer = TRUE]

\* downloadVideoOrAudio after `await extractMetadata`: re-check, file name,
\* expected pattern, spawn of the download child, registration, timeout
AfterMetadata(s, i, title) ==
  LET s1 == getSessionData(s)
  IN IF Data(s1).cancelled
     THEN ResolveWorker(s1, i, "Download cancelled", << >>)
     ELSE
       LET fileName == IF title # NoTitle THEN sanitizeFilename(title) ELSE SafeId(i)
           pattern == Substring(fileName, 0, Min(PatternLen, Len(fileName)))
           s2 == [s1 EXCEPT !.recs[s1.sessionData].expectedFilePatterns = @ \cup {pattern},
                            !.wk[i].fileName = fileName]
           s3 == spawn(s2, "dl", i)
           yt == Len(s3.procs)
           s4 == Register([s3 EXCEPT !.wk[i].dlProc = yt], yt)
       IN IF Data(s4).cancelled
          THEN ResolveWorker(Kill([s4 EXCEPT !.procs[yt].hooked = FALSE], yt),
                             i, "Download cancelled", << >>)
          ELSE [s4 EXCEPT !.wk[i].timer = TRUE]

\* resolve(...) of extractMetadata's promise
ResolveMeta(s, i, title) ==
  IF s.wk[i].metaDone THEN s
  ELSE AfterMetadata([s EXCEPT !.wk[i].metaDone = TRUE], i, title)

\* downloadVideoOrAudio up to `await extractMetadata`, and extractMetadata up
\* to the arming of its timers
StartWorker(s, i) ==
  LET s0 == [s EXCEPT !.wk[i].started = TRUE]
      s1 == getSessionData(s0)
  IN IF Data(s1).cancelled
     THEN ResolveWorker(s1, i, "Download cancelled", << >>)
     ELSE
       LET s2 == spawn(s1, "meta", i)
           mp == Len(s2.procs)
           s3 == Register([s2 EXCEPT !.wk[i].metaProc = mp], mp)
       IN IF Data(s3).cancelled
          THEN ResolveMeta(Kill([s3 EXCEPT !.procs[mp].hooked = FALSE], mp), i, NoTitle)
          ELSE [s3 EXCEPT !.wk[i].metaTimer = TRUE, !.wk[i].ival = TRUE]

\* mutant: the progress message carries the loop index instead of index + 1
LoopTopZeroBased(s) ==
  LET i == s.batch.i
      total == s.batch.total
  IN IF i >= total
     THEN EndBatch(sendWebSocketMessage(s,
            Msg("complete", 0, total, s.batch.successful, s.batch.failed, "",
                "processBatchDownload")), "done")
     ELSE
       LET s1 == getSessionData(s)
           s2 == [s1 EXCEPT !.batch.data = s1.sessionData]
       IN IF Data(s2).cancelled
          THEN EndBatch(sendWebSocketMessage(s2,
                 Msg("error", 0, 0, 0, 0, "Download cancelled by user",
                     "processBatchDownload")), "done")
          ELSE
            LET s3 == sendWebSocketMessage(s2,
                        Msg("progress", i, total, 0, 0, "", "processBatchDownload"))
            IN StartWorker([s3 EXCEPT !.batch.pc = "awaiting"], i + 1)

\* processBatchDownload: the head of the for loop and the code after it
LoopTop(s) ==
  LET i == s.batch.i
      total == s.batch.total
  IN IF i >= total
     THEN EndBatch(sendWebSocketMessage(s,
            Msg("complete", 0, total, s.batch.successful, s.batch.failed, "",
                "processBatchDownload")), "done")
     ELSE
       LET s1 == getSessionData(s)
           s2 == [s1 EXCEPT !.batch.data = s1.sessionData]
       IN IF Data(s2).cancelled
          THEN EndBatch(sendWebSocketMessage(s2,
                 Msg("error", 0, 0, 0, 0, "Download cancelled by user",
                     "processBatchDownload")), "done")
          ELSE
            LET s3 == sendWebSocketMessage(s2,
                        Msg("progress", i + 1, total, 0, 0, "", "processBatchDownload"))
            IN StartWorker([s3 EXCEPT !.batch.pc = "awaiting"], i + 1)

\* mutant: a failed item ends the batch instead of being reported and skipped
AfterDownloadAbortsOnFailure(s, i) ==
  IF s.recs[s.batch.data].cancelled
  THEN EndBatch(s, "done")
  ELSE
    LET total == s.batch.total
    IN IF s.wk[i].outcome = "success"
       THEN LoopTop([sendWebSocketMessage([s EXCEPT !.batch.successful = @ + 1],
                       Msg("success", i, total, 0, 0, "", "processBatchDownload"))
                     EXCEPT !.batch.i = @ + 1, !.batch.pc = "loop"])
       ELSE EndBatch(sendWebSocketMessage([s EXCEPT !.batch.failed = @ + 1],
                       Msg("error", 0, 0, 0, 0, "Batch download failed",
                           "processBatchDownload")), "done")

\* mutant: a failed item is counted as successful too
AfterDownloadCountsBoth(s, i) ==
  IF s.recs[s.batch.data].cancelled
  THEN EndBatch(s, "done")
  ELSE
    LET total == s.batch.total
        s1 == IF s.wk[i].outcome = "success"
              THEN sendWebSocketMessage([s EXCEPT !.batch.successful = @ + 1],
                     Msg("success", i, total, 0, 0, "", "processBatchDownload"))
              ELSE sendWebSocketMessage([s EXCEPT !.batch.failed = @ + 1,
                                                  !.batch.successful = @ + 1],
                     Msg("error", i, total, 0, 0, s.wk[i].outcome, "processBatchDownload"))
    IN LoopTop([s1 EXCEPT !.batch.i = @ + 1, !.batch.pc = "loop"])

\* processBatchDownload after `await downloadSingleVideo`
AfterDownload(s, i) ==
  IF s.recs[s.batch.data].cancelled
  THEN EndBatch(s, "done")
  ELSE
    LET total == s.batch.total
        s1 == IF s.wk[i].outcome = "success"
              THEN sendWebSocketMessage([s EXCEPT !.batch.successful = @ + 1],
                     Msg("success", i, total, 0, 0, "", "processBatchDownload"))
              ELSE sendWebSocketMessage([s EXCEPT !.batch.failed = @ + 1],
                     Msg("error", i, total, 0, 0, s.wk[i].outcome, "processBatchDownload"))
    IN LoopTop([s1 EXCEPT !.batch.i = @ + 1, !.batch.pc = "loop"])

\* mutant: a rejected listing is swallowed without a message
AfterListingSilentOnFailure(s, ok, n) ==
  IF ~ok
  THEN EndBatch(s, "done")
  ELSE IF n = 0
  THEN EndBatch(sendWebSocketMessage([s EXCEPT !.batch.videos = n],
         Msg("error", 0, 0, 0, 0, "No videos found in playlist", "processBatchDownload")),
         "done")
  ELSE
    LET s1 == getSessionData([s EXCEPT !.batch.videos = n])
        s2 == sendWebSocketMessage(s1,
                Msg("start", 0, n, 0, 0, "", "processBatchDownload"))
    IN LoopTop([s2 EXCEPT !.batch.total = n, !.batch.successful = 0,
                          !.batch.failed = 0, !.batch.i = 0, !.batch.pc = "loop"])

\* mutant: the batch goes on with an empty list
AfterListingStartsEmpty(s, ok, n) ==
  IF ~ok
  THEN EndBatch(sendWebSocketMessage(s,
         Msg("error", 0, 0, 0, 0, "Batch download failed", "processBatchDownload")), "done")
  ELSE
    LET s1 == getSessionData([s EXCEPT !.batch.videos = n])
        s2 == sendWebSocketMessage(s1,
                Msg("start", 0, n, 0, 0, "", "processBatchDownload"))
    IN LoopTop([s2 EXCEPT !.batch.total = n, !.batch.successful = 0,
                          !.batch.failed = 0, !.batch.i = 0, !.batch.pc = "loop"])

\* processBatchDownload after `await extractPlaylistDetails`
AfterListing(s, ok, n) ==
  IF ~ok
  THEN EndBatch(sendWebSocketMessage(s,
         Msg("error", 0, 0, 0, 0, "Batch download failed", "processBatchDownload")), "done")
  ELSE IF n = 0
  THEN EndBatch(sendWebSocketMessage([s EXCEPT !.batch.videos = n],
         Msg("error", 0, 0, 0, 0, "No videos found in playlist", "processBatchDownload")),
         "done")
  ELSE
    LET s1 == getSessionData([s EXCEPT !.batch.videos = n])
    IN IF Data(s1).cancelled
       THEN EndBatch(sendWebSocketMessage(s1,
              Msg("error", 0, 0, 0, 0, "Download cancelled", "processBatchDownload")),
              "done")
       ELSE
         LET s2 == sendWebSocketMessage(s1,
                     Msg("start", 0, n, 0, 0, "", "processBatchDownload"))
         IN LoopTop([s2 EXCEPT !.batch.total = n, !.batch.successful = 0,
                               !.batch.failed = 0, !.batch.i = 0, !.batch.pc = "loop"])

\* settle / reject of extractPlaylistDetails' promise
SettleListing(s, ok, n) ==
  IF s.batch.plDone THEN s
  ELSE AfterListing([s EXCEPT !.batch.plDone = TRUE], ok, n)

\* ------------------------------------------------------------- files
FullName(f) == f.base \o << ".", f.ext >>

NoFile == [ base |-> << >>, ext |-> "", mtime |-> 0 ]

Exists(s, name) == \E f \in s.storage : FileName(f) = name

Unlink(s, name) == [s EXCEPT !.storage = { f \in @ : FileName(f) # name }]

WriteFile(s, base, ext) ==
  [s EXCEPT !.storage = { f \in @ : FileName(f) # << base, ext >> }
                          \cup { [ base |-> base, ext |-> ext, mtime |-> s.clock ] },
            !.clock = @ + 1]

\* the fallback search of downloadVideoOrAudio (format 'audio')
Candidates(s, i) ==
  { f \in s.storage :
      /\ StartsWith(FullName(f), s.wk[i].fileName) \/ StartsWith(FullName(f), SafeId(i))
      /\ f.ext # "mhtml"
      /\ f.ext \in AudioExtensions }

\* ------------------------------------------------------------- Init
NoCall ==
  [ st |-> "none", title |-> << >>, maxLength |-> 0, result |-> << >>, again |-> << >> ]

Init ==
  /\ sessionData = 0
  /\ recs = << >>
  /\ clock = 0
  /\ delTimers = << >>
  /\ procs = << >>
  /\ storage = {}
  /\ wk = [i \in 1..MaxItems |-> IdleWorker]
  /\ batch = IdleBatch
  /\ wsConnections = 0
  /\ conns = << >>
  /\ published = << >>
  /\ cancelCalls = 0
  /\ timeouts = 0
  /\ call = NoCall

\* ------------------------------------------------------------- the batch
\* POST /api/download with a playlist url: processBatchDownload up to
\* `await extractPlaylistDetails`, and extractPlaylistDetails up to its timer
StartBatch ==
  /\ batch.pc = "idle"
  /\ LET s1 == spawn(getSessionData(Cur), "playlist", 0)
     IN Commit([s1 EXCEPT !.batch.pc = "listing", !.batch.plProc = Len(s1.procs),
                          !.batch.plTimer = TRUE])

\* ------------------------------------------------------------- the tool
\* a download child writes an output file; a signalled child writes nothing more
DlWrite(i, ext) ==
  LET p == wk[i].dlProc IN
  /\ p # 0
  /\ procs[p].st = "running"
  /\ ~procs[p].killed
  /\ ~procs[p].wrote
  /\ Commit(WriteFile([Cur EXCEPT !.procs[p].wrote = TRUE], wk[i].fileName, ext))

\* a download child exits; ff: its stderr reports the missing ffmpeg
DlExit(i, code, ff) ==
  LET p == wk[i].dlProc IN
  /\ p # 0
  /\ procs[p].st = "running"
  /\ procs[p].killed => code = 1 /\ ~ff
  /\ code = 0 => ~ff
  /\ procs' = [procs EXCEPT ![p].st = "exited", ![p].code = code, ![p].ffErr = ff,
                            ![p].wrote = FALSE]
  /\ UNCHANGED << sessionData, recs, clock, delTimers, storage, wk, batch,
                  wsConnections, conns, published, cancelCalls, timeouts, call >>

\* ------------------------------------------------- extractPlaylistDetails
\* the listing child fails to start: 'error', then 'close' with a non-zero code
PlaylistError ==
  LET p == batch.plProc IN
  /\ p # 0
  /\ procs[p].st = "running"
  /\ ~procs[p].killed
  /\ Commit(SettleListing(Closed(Cur, p), FALSE, 0))

\* the listing child ends (non-zero, or zero having printed n entries) and its
\* 'close' listener runs
PlaylistClose(code, n) ==
  LET p == batch.plProc IN
  /\ p # 0
  /\ procs[p].st = "running"
  /\ procs[p].killed => code = 1
  /\ code = 1 => n = 0
  /\ Commit(SettleListing(Closed(Cur, p), code = 0, n))

\* the 60 s timer; it is never cleared, and once the child has closed its
\* callback changes nothing (kill returns false, the promise is settled)
PlaylistTimeout ==
  LET p == batch.plProc IN
  /\ batch.plTimer
  /\ procs[p].st # "closed"
  /\ timeouts < MaxTimeouts
  /\ LET s1 == [Cur EXCEPT !.batch.plTimer = FALSE, !.timeouts = @ + 1]
     IN Commit(IF ~procs[p].killed THEN SettleListing(Kill(s1, p), FALSE, 0) ELSE s1)

\* ------------------------------------------------------- extractMetadata
\* the metadata child fails to start: 'error', then 'close' with a non-zero code
MetaError(i) ==
  LET p == wk[i].metaProc IN
  /\ p # 0
  /\ procs[p].st = "running"
  /\ procs[p].hooked
  /\ ~procs[p].killed
  /\ LET s0 == ResolveMeta(Closed(Cur, p), i, NoTitle)
         s1 == Unregister(s0, p)
     IN Commit(Ran([s1 EXCEPT !.wk[i].ival = FALSE, !.wk[i].metaTimer = FALSE],
                   <<"ival", i>>))

\* the metadata child ends (non-zero, or zero having printed a title or nothing
\* usable): both 'close' listeners, then the continuation of the promise
MetaClose(i, code, out) ==
  LET p == wk[i].metaProc IN
  /\ p # 0
  /\ procs[p].st = "running"
  /\ procs[p].killed => code = 1
  /\ code = 1 => out = NoTitle
  /\ LET s0 == Closed(Cur, p)
         s1 == Unregister(s0, p)
         s2 == Ran([s1 EXCEPT !.wk[i].ival = FALSE, !.wk[i].metaTimer = FALSE],
                   <<"ival", i>>)
         title == IF Data(s1).cancelled \/ code # 0 THEN NoTitle ELSE out
     IN Commit(IF procs[p].hooked THEN ResolveMeta(s2, i, title) ELSE s0)

\* the 45 s timer
MetaTimeout(i) ==
  LET p == wk[i].metaProc IN
  /\ wk[i].metaTimer
  /\ timeouts < MaxTimeouts
  /\ LET s1 == [Cur EXCEPT !.wk[i].metaTimer = FALSE, !.timeouts = @ + 1]
     IN Commit(IF ~procs[p].killed THEN ResolveMeta(Kill(s1, p), i, NoTitle) ELSE s1)

\* a tick of the 1 s cancellation check that changes something: it re-creates
\* a removed record, or it sees the flag
MetaIntervalTick(i) ==
  LET p == wk[i].metaProc IN
  /\ wk[i].ival
  /\ IF sessionData = 0 THEN TRUE ELSE recs[sessionData].cancelled
  /\ LET s1 == Ran(getSessionData(Cur), <<"ival", i>>)
         s2 == [s1 EXCEPT !.wk[i].ival = FALSE, !.wk[i].metaTimer = FALSE]
         s3 == IF ~s2.procs[p].killed THEN Kill(s2, p) ELSE s2
     IN Commit(IF Data(s1).cancelled THEN ResolveMeta(s3, i, NoTitle) ELSE s1)

\* -------------------------------------------------- downloadVideoOrAudio
DlError(i) ==
  LET p == wk[i].dlProc IN
  /\ p # 0
  /\ procs[p].st = "running"
  /\ procs[p].hooked
  /\ ~procs[p].killed
  /\ ~procs[p].wrote
  /\ Commit(ResolveWorker([Cur EXCEPT !.procs[p].st = "exited", !.procs[p].code = 1,
                                      !.wk[i].timer = FALSE,
                                      !.wk[i].downloadComplete = TRUE],
                          i, "Failed to start yt-dlp", << >>))

\* the 10 minute timer
DlTimeout(i) ==
  LET p == wk[i].dlProc IN
  /\ wk[i].timer
  /\ timeouts < MaxTimeouts
  /\ LET s1 == [Cur EXCEPT !.wk[i].timer = FALSE, !.timeouts = @ + 1]
     IN Commit(IF ~wk[i].downloadComplete
               THEN ResolveWorker(Kill(s1, p), i, "Download timeout", << >>)
               ELSE s1)

\* mutant: the 'close' handler leaves the timeout timer armed
DlCloseHandlerKeepsTimer(s, i, p, code, ffErr) ==
  IF s.wk[i].downloadComplete THEN s
  ELSE
    LET s1 == Unregister([s EXCEPT !.wk[i].downloadComplete = TRUE], p)
        webm == << s.wk[i].fileName, "webm" >>
    IN IF Data(s1).cancelled
       THEN ResolveWorker(s1, i, "Download cancelled", << >>)
       ELSE IF code # 0
       THEN IF ffErr /\ Exists(s1, webm)
            THEN ResolveWorker(s1, i, "success", webm)
            ELSE ResolveWorker(s1, i, "yt-dlp failed with code", << >>)
       ELSE [s1 EXCEPT !.wk[i].settle = TRUE]

\* the 'close' listener of the download child
DlCloseHandler(s, i, p, code, ffErr) ==
  IF s.wk[i].downloadComplete THEN s
  ELSE
    LET s1 == Unregister([s EXCEPT !.wk[i].downloadComplete = TRUE,
                                   !.wk[i].timer = FALSE], p)
        webm == << s.wk[i].fileName, "webm" >>
    IN IF Data(s1).cancelled
       THEN ResolveWorker(s1, i, "Download cancelled", << >>)
       ELSE IF code # 0
       THEN IF ffErr /\ Exists(s1, webm)
            THEN ResolveWorker(s1, i, "success", webm)
            ELSE ResolveWorker(s1, i, "yt-dlp failed with code", << >>)
       ELSE [s1 EXCEPT !.wk[i].settle = TRUE]

DlClose(i) ==
  LET p == wk[i].dlProc IN
  /\ p # 0
  /\ procs[p].st = "exited"
  /\ LET s0 == Ran(Closed(Cur, p), <<"close", p>>)
     IN Commit(IF procs[p].hooked
               THEN DlCloseHandler(s0, i, p, procs[p].code, procs[p].ffErr)
               ELSE s0)

\* registration of a located artifact, or its removal when cancelled meanwhile
RegisterFile(s, i, name) ==
  LET s1 == getSessionData(s)
  IN IF Data(s1).cancelled
     THEN ResolveWorker(Unlink(s1, name), i, "Download cancelled", << >>)
     ELSE ResolveWorker([s1 EXCEPT !.recs[s1.sessionData].files = @ \cup {name}],
                        i, "success", name)

\* mutant: only the exact expected name is looked for
DlSettleHandlerExactOnly(s, i, pick) ==
  LET expected == << s.wk[i].fileName, "mp3" >>
  IN IF Exists(s, expected) THEN RegisterFile(s, i, expected)
     ELSE ResolveWorker(s, i, "Output file not found after download", << >>)

\* mutant: nothing is resolved when no output file is found
DlSettleHandlerSilentWhenMissing(s, i, pick) ==
  LET expected == << s.wk[i].fileName, "mp3" >>
  IN IF Exists(s, expected) THEN RegisterFile(s, i, expected)
     ELSE IF pick # NoFile THEN RegisterFile(s, i, FileName(pick))
     ELSE s

\* the callback of the 1 s settle delay; pick is files[0] of the fallback search
DlSettleHandler(s, i, pick) ==
  LET expected == << s.wk[i].fileName, "mp3" >>
  IN IF Exists(s, expected) THEN RegisterFile(s, i, expected)
     ELSE IF pick # NoFile THEN RegisterFile(s, i, FileName(pick))
     ELSE ResolveWorker(s, i, "Output file not found after download", << >>)

DlSettle(i, pick) ==
  /\ wk[i].settle
  /\ LET s0 == Ran([Cur EXCEPT !.wk[i].settle = FALSE], <<"settle", i>>)
         expected == << wk[i].fileName, "mp3" >>
         found == IF Exists(s0, expected) THEN {} ELSE Candidates(s0, i)
     IN /\ IF found = {} THEN pick = NoFile ELSE pick \in found
        /\ Commit(DlSettleHandler(s0, i, pick))

\* ------------------------------------------------------------- transport
Welcome == Msg("connected", 0, 0, 0, 0, "", "connection")

\* wsConnections.set(sessionId, ws) and the welcome message sent on ws
Associate(s) ==
  [s EXCEPT !.conns = Append(@, [NewConn EXCEPT !.delivered = << Welcome >>]),
            !.wsConnections = Len(s.conns) + 1]

\* wss.on('connection')
WsConnect ==
  /\ batch.pc # "idle"
  /\ Len(conns) < MaxConns
  /\ Commit(Associate(Cur))

\* wss.on('connection'), with several connections made for the session
WsSubscribe ==
  /\ batch.pc # "idle"
  /\ Len(conns) < MaxSubscribers
  /\ Commit(Associate(Cur))

WsCloseHandler(s, c) ==
  LET s1 == [s EXCEPT !.conns[c].st = "closed", !.wsConnections = 0]
  IN IF s1.sessionData # 0
        /\ (Data(s1).processes # {} \/ Data(s1).files # {})
     THEN cancelSession(s1)
     ELSE s1

\* ws.on('close')
WsClose(c) ==
  /\ c \in DOMAIN conns
  /\ conns[c].st = "open"
  /\ LET s1 == WsCloseHandler(Cur, c)
     IN /\ s1.cancelCalls <= MaxCancels
        /\ Commit(s1)

\* ws.on('message') with a cancel request
WsCancelMessage(c) ==
  /\ c \in DOMAIN conns
  /\ conns[c].st = "open"
  /\ cancelCalls < MaxCancels
  /\ Commit(cancelSession(Cur))

\* POST /api/v1/cancel
HttpCancel ==
  /\ batch.pc # "idle"
  /\ cancelCalls < MaxCancels
  /\ Commit(cancelSession(Cur))

\* ------------------------------------------------------------- Next
Items == 1..MaxItems

Next ==
  \/ StartBatch
  \/ \E code \in {0, 1}, n \in 0..MaxItems : PlaylistClose(code, n)
  \/ PlaylistError
  \/ PlaylistTimeout
  \/ \E i \in Items, code \in {0, 1}, out \in RawTitles \cup {NoTitle} : MetaClose(i, code, out)
  \/ \E i \in Items : MetaError(i)
  \/ \E i \in Items : MetaTimeout(i)
  \/ \E i \in Items : MetaIntervalTick(i)
  \/ \E i \in Items, ext \in ToolExtensions : DlWrite(i, ext)
  \/ \E i \in Items, code \in {0, 1}, ff \in BOOLEAN : DlExit(i, code, ff)
  \/ \E i \in Items : DlError(i)
  \/ \E i \in Items : DlClose(i)
  \/ \E i \in Items : DlTimeout(i)
  \/ \E i \in Items : \E pick \in storage \cup {NoFile} : DlSettle(i, pick)
  \/ RemoveSession
  \/ WsConnect
  \/ \E c \in 1..MaxConns : WsClose(c)
  \/ \E c \in 1..MaxConns : WsCancelMessage(c)
  \/ HttpCancel

Spec == Init /\ [][Next]_vars

\* The batch alone: no cancellation is ever requested and nobody subscribes.
NextBatch ==
  \/ StartBatch
  \/ \E code \in {0, 1}, n \in 0..MaxItems : PlaylistClose(code, n)
  \/ PlaylistError
  \/ PlaylistTimeout
  \/ \E i \in Items, code \in {0, 1}, out \in RawTitles \cup {NoTitle} : MetaClose(i, code, out)
  \/ \E i \in Items : MetaError(i)
  \/ \E i \in Items : MetaTimeout(i)
  \/ \E i \in Items, ext \in ToolExtensions : DlWrite(i, ext)
  \/ \E i \in Items, code \in {0, 1}, ff \in BOOLEAN : DlExit(i, code, ff)
  \/ \E i \in Items : DlError(i)
  \/ \E i \in Items : DlClose(i)
  \/ \E i \in Items : DlTimeout(i)
  \/ \E i \in Items : \E pick \in storage \cup {NoFile} : DlSettle(i, pick)

SpecBatch == Init /\ [][NextBatch]_vars

\* The batch with subscribers that connect, reconnect and disconnect; no
\* cancellation is requested other than by a disconnect.
NextChannel ==
  \/ StartBatch
  \/ \E code \in {0, 1}, n \in 0..MaxItems : PlaylistClose(code, n)
  \/ PlaylistError
  \/ PlaylistTimeout
  \/ \E i \in Items, code \in {0, 1}, out \in RawTitles \cup {NoTitle} : MetaClose(i, code, out)
  \/ \E i \in Items : MetaError(i)
  \/ \E i \in Items : MetaTimeout(i)
  \/ \E i \in Items : MetaIntervalTick(i)
  \/ \E i \in Items, ext \in ToolExtensions : DlWrite(i, ext)
  \/ \E i \in Items, code \in {0, 1}, ff \in BOOLEAN : DlExit(i, code, ff)
  \/ \E i \in Items : DlError(i)
  \/ \E i \in Items : DlClose(i)
  \/ \E i \in Items : DlTimeout(i)
  \/ \E i \in Items : \E pick \in storage \cup {NoFile} : DlSettle(i, pick)
  \/ RemoveSession
  \/ WsSubscribe
  \/ \E c \in 1..MaxSubscribers : WsClose(c)

SpecChannel == Init /\ [][NextChannel]_vars

\* ------------------------------------------------------------- retention
\* mutant: files registered in the session's record are spared
cleanupOldFilesSparesRegistered(s, maxAgeMinutes) ==
  [s EXCEPT !.storage =
     { f \in @ : \/ ~(s.clock - f.mtime > maxAgeMinutes)
                 \/ \E r \in DOMAIN s.recs : FileName(f) \in s.recs[r].files }]

\* cleanupOldFiles(maxAgeMinutes), run at time s.clock
cleanupOldFiles(s, maxAgeMinutes) ==
  [s EXCEPT !.storage = { f \in @ : ~(s.clock - f.mtime > maxAgeMinutes) }]

\* the directory found at server start: files written before the start
OldNames == { <<"o">>, <<"p">> }
OldMtimes == { -11, -10, -1 }
NewNames == { <<"n">> }

\* The state after the module has loaded: the eager cleanupOldFiles(10) has
\* run on whatever the directory held, and a session holds an artifact
\* registered in its files (whether the file itself survived or not).
InitRetention ==
  /\ clock = 0
  /\ sessionData = 1
  /\ \E reg \in SUBSET OldNames :
       recs = << [NewRec(0) EXCEPT !.files = { << b, "mp3" >> : b \in reg }] >>
  /\ \E dir \in SUBSET { [ base |-> b, ext |-> "mp3", mtime |-> m ] :
                           b \in OldNames, m \in OldMtimes } :
       /\ \A f, g \in dir : f.base = g.base => f = g
       /\ storage = cleanupOldFiles([ storage |-> dir, clock |-> clock, recs |-> recs ],
                                    RetentionMinutes).storage
  /\ delTimers = << >>
  /\ procs = << >>
  /\ wk = [i \in 1..MaxItems |-> IdleWorker]
  /\ batch = IdleBatch
  /\ wsConnections = 0
  /\ conns = << >>
  /\ published = << >>
  /\ cancelCalls = 0
  /\ timeouts = 0
  /\ call = NoCall

\* a minute passes in which the interval timer is not due
MinutePasses ==
  /\ clock + 1 < MaxMinutes
  /\ (clock + 1) % SweepIntervalMinutes # 0
  /\ clock' = clock + 1
  /\ UNCHANGED << sessionData, recs, delTimers, procs, storage, wk, batch,
                  wsConnections, conns, published, cancelCalls, timeouts, call >>

\* the interval timer is due: its callback runs cleanupOldFiles(10)
SweepTick ==
  /\ clock + 1 < MaxMinutes
  /\ (clock + 1) % SweepIntervalMinutes = 0
  /\ Commit(cleanupOldFiles([Cur EXCEPT !.clock = clock + 1], RetentionMinutes))

\* a download writes (or rewrites) a file now; the session may register it
ArtifactWritten(b, register) ==
  /\ storage' = { f \in storage : f.base # b }
                  \cup { [ base |-> b, ext |-> "mp3", mtime |-> clock ] }
  /\ recs' = IF register
             THEN [recs EXCEPT ![sessionData].files = @ \cup { << b, "mp3" >> }]
             ELSE recs
  /\ UNCHANGED << sessionData, clock, delTimers, procs, wk, batch,
                  wsConnections, conns, published, cancelCalls, timeouts, call >>

NextRetention ==
  \/ MinutePasses
  \/ SweepTick
  \/ \E b \in OldNames \cup NewNames, register \in BOOLEAN : ArtifactWritten(b, register)

SpecRetention == InitRetention /\ [][NextRetention]_vars

\* ------------------------------------------------- sanitizeFilename on its own
TitleChars == { "a", " ", "\t", "?" }
Titles == UNION { [1..n -> TitleChars] : n \in 0..MaxTitleLen }

InitSanitize ==
  /\ \E title \in Titles, maxLength \in 0..MaxLength :
       call = [NoCall EXCEPT !.st = "args", !.title = title, !.maxLength = maxLength]
  /\ sessionData = 0
  /\ recs = << >>
  /\ clock = 0
  /\ delTimers = << >>
  /\ procs = << >>
  /\ storage = {}
  /\ wk = [i \in 1..MaxItems |-> IdleWorker]
  /\ batch = IdleBatch
  /\ wsConnections = 0
  /\ conns = << >>
  /\ published = << >>
  /\ cancelCalls = 0
  /\ timeouts = 0

\* sanitizeFilename(title, maxLength)
SanitizeCall ==
  /\ call.st = "args"
  /\ call' = [call EXCEPT !.st = "once",
                          !.result = sanitizeFilenameTo(call.title, call.maxLength)]
  /\ UNCHANGED << sessionData, recs, clock, delTimers, procs, storage, wk, batch,
                  wsConnections, conns, published, cancelCalls, timeouts >>

\* sanitizeFilename(result, maxLength): the function applied to its own result
SanitizeAgain ==
  /\ call.st = "once"
  /\ call' = [call EXCEPT !.st = "twice",
                          !.again = sanitizeFilenameTo(call.result, call.maxLength)]
  /\ UNCHANGED << sessionData, recs, clock, delTimers, procs, storage, wk, batch,
                  wsConnections, conns, published, cancelCalls, timeouts >>

NextSanitize ==
  \/ SanitizeCall
  \/ SanitizeAgain

SpecSanitize == InitSanitize /\ [][NextSanitize]_vars

\* ------------------------------------------------- the frame of cancelSession
\* names in a shared directory: one that starts with the session's pattern,
\* one that is a prefix of it, one unrelated; media and other extensions;
\* written before the session started, early in it, or lately
SessionPattern == << "a", "b" >>
DirBases == { << "a", "b", "c" >>, << "a" >>, << "z" >> }
DirExtensions == { "mp3", "txt" }
DirMtimes == { 0, 1, 4 }
SessionStart == 1
CancelTime == 7

\* A session whose batch has returned, in a directory that other sessions and
\* other programs have written to.
InitCancelFrame ==
  /\ clock = CancelTime
  /\ sessionData = 1
  /\ \E reg \in SUBSET { << b, "mp3" >> : b \in DirBases } :
       /\ Cardinality(reg) <= 1
       /\ recs = << [NewRec(SessionStart) EXCEPT
                       !.files = reg, !.expectedFilePatterns = { SessionPattern }] >>
  /\ \E dir \in SUBSET { [ base |-> b, ext |-> e, mtime |-> m ] :
                           b \in DirBases, e \in DirExtensions, m \in DirMtimes } :
       /\ \A f, g \in dir : FileName(f) = FileName(g) => f = g
       /\ storage = dir
  /\ delTimers = << >>
  /\ procs = << >>
  /\ wk = [i \in 1..MaxItems |-> IdleWorker]
  /\ batch = [IdleBatch EXCEPT !.pc = "done"]
  /\ wsConnections = 0
  /\ conns = << >>
  /\ published = << >>
  /\ cancelCalls = 0
  /\ timeouts = 0
  /\ call = NoCall

NextCancelFrame ==
  \/ HttpCancel
  \/ RemoveSession

SpecCancelFrame == InitCancelFrame /\ [][NextCancelFrame]_vars

\* ============================================================== properties
Running(p) == procs[p].st = "running"

\* nothing of the session is still to run: the batch has returned, no child is
\* alive or waiting for its 'close', no settle delay is pending
Quiet ==
  /\ batch.pc = "done"
  /\ \A p \in DOMAIN procs : procs[p].st = "closed"
  /\ \A i \in Items : ~wk[i].settle

ByBatch(m) == m.by = "processBatchDownload"
ByCancel(m) == m.by = "cancelSession"

\* C1: once cancelSession has run, a read of the session's cancelled flag
\* through getSessionData returns true, at any later time.
C1_CancelledNeverReverts ==
  cancelCalls > 0 => Data(getSessionData(Cur)).cancelled

\* C2: once cancelSession has been called, no metadata or download child is
\* spawned under the session.
C2_NoSpawnAfterCancel ==
  \A p \in DOMAIN procs : procs[p].kind \in {"meta", "dl"} => ~procs[p].late

\* C3: after cancelSession, once all in-flight callbacks of the session have
\* run, the storage directory holds no artifact of the session's workers.
C3_NoArtifactAfterCancel ==
  (cancelCalls > 0 /\ Quiet) => storage = {}

\* C4: every child registered to the session after cancelSession was called is
\* sent a termination signal.
C4_LateRegisteredSignalled ==
  \A p \in DOMAIN procs :
    (procs[p].late /\ Running(p) /\ \E r \in DOMAIN recs : p \in recs[r].processes)
      => procs[p].killed

\* C5: cancelSession signals every child that runs on behalf of the session at
\* the moment of the call, the playlist listing included.
C5_CancelSignalsAllRunning ==
  cancelCalls > 0 =>
    \A p \in DOMAIN procs : (Running(p) /\ ~procs[p].late) => procs[p].killed

\* C6: two cancel calls publish at most one cancellation message to the
\* session's subscriber in total.
C6_AtMostOneCancelMessage ==
  \A c \in DOMAIN conns :
    Len(SelectSeq(conns[c].delivered, ByCancel)) <= 1

\* C8: once a cancellation has been issued, no complete message is published
\* for the session afterwards.
C8_NoCompleteAfterCancel ==
  \A j, k \in DOMAIN published :
    (j < k /\ ByCancel(published[j])) => published[k].type # "complete"

\* C7: a batch of N >= 1 items that is never cancelled publishes start, then
\* for each item its progress message followed by its success or error
\* message, then one complete message with successful + failed = N.
C7_UncancelledBatchMessages ==
  (cancelCalls = 0 /\ batch.pc = "done" /\ batch.total >= 1) =>
    LET N == batch.total IN
    /\ Len(published) = 2 * N + 2
    /\ published[1].type = "start" /\ published[1].total = N
    /\ \A i \in 1..N :
         /\ published[2 * i].type = "progress"
         /\ published[2 * i].current = i
         /\ published[2 * i + 1].type \in {"success", "error"}
         /\ published[2 * i + 1].current = i
    /\ published[2 * N + 2].type = "complete"
    /\ published[2 * N + 2].successful + published[2 * N + 2].failed = N

\* an uncancelled batch of MaxItems items has returned, one item having
\* succeeded and one having failed
C7_Witness ==
  /\ cancelCalls = 0
  /\ batch.pc = "done"
  /\ batch.total = MaxItems
  /\ batch.successful >= 1
  /\ batch.failed >= 1

\* the place of a batch message in the order of the batch; -1 for the others
Rank(m) ==
  CASE m.type = "start" -> 0
    [] m.type = "progress" -> 2 * m.current - 1
    [] m.type \in {"success", "error"} /\ m.current > 0 -> 2 * m.current
    [] m.type = "complete" -> 2 * m.total + 1
    [] OTHER -> -1

IsBatchMsg(m) == ByBatch(m) /\ Rank(m) >= 0

InOrder(seq) ==
  \A j, k \in DOMAIN seq : j < k => Rank(seq[j]) < Rank(seq[k])

RECURSIVE IsSubseq(_, _)
IsSubseq(a, b) ==
  IF a = << >> THEN TRUE
  ELSE IF b = << >> THEN FALSE
  ELSE IF Head(a) = Head(b) THEN IsSubseq(Tail(a), Tail(b))
  ELSE IsSubseq(a, Tail(b))

\* C10: the published batch messages keep the batch order (start first, then
\* progress i, outcome i, progress i+1, ..., complete last), and a subscriber
\* receives them in that order.
C10_MessagesKeepBatchOrder ==
  LET B == SelectSeq(published, IsBatchMsg) IN
  /\ InOrder(B)
  /\ B # << >> => (B[1].type = "start" /\ B[1].total = batch.total)
  /\ \A c \in DOMAIN conns :
       LET D == SelectSeq(conns[c].delivered, IsBatchMsg)
       IN InOrder(D) /\ IsSubseq(D, B)

\* a subscriber has received every message of a whole batch of MaxItems items
C10_Witness ==
  \E c \in DOMAIN conns :
    Len(SelectSeq(conns[c].delivered, IsBatchMsg)) = 2 * MaxItems + 2

\* a child spawned for item k by its worker (metadata pre-fetch or download)
OfItem(p, k) == procs[p].kind \in {"meta", "dl"} /\ procs[p].item = k

\* C11: no child of item k+1 (or of a later item) exists while a child spawned
\* for item k is still alive, also after item k's worker or its metadata
\* pre-fetch was resolved by a timeout.
C11_NoConcurrentWorkers ==
  \A p, q \in DOMAIN procs :
    (procs[p].item >= 1 /\ OfItem(p, procs[p].item) /\ OfItem(q, procs[q].item)
       /\ procs[p].item < procs[q].item /\ Running(q))
      => ~Running(p)

\* C12: a batch whose listing yields no item publishes one error message and
\* nothing else, and starts no worker.
C12_EmptyListOneError ==
  batch.videos = 0 =>
    /\ batch.pc = "done"
    /\ Len(published) = 1
    /\ published[1].type = "error"
    /\ published[1].error = "No videos found in playlist"
    /\ \A i \in Items : ~wk[i].started
    /\ \A p \in DOMAIN procs : procs[p].kind = "playlist"

\* the listing has resolved with an empty list and the batch has returned
C12_Witness ==
  batch.videos = 0 /\ batch.pc = "done" /\ procs[batch.plProc].st = "closed"

\* a message the batch publishes for one of its items
IsItemMsg(m) ==
  /\ ByBatch(m)
  /\ m.type \in {"progress", "success", "error"}
  /\ ~(m.type = "error" /\ m.current = 0 /\ m.total = 0)

\* C13: every progress, success and error message of an item carries
\* 1 <= current <= total, with total the item count of the listing.
C13_CurrentWithinTotal ==
  \A k \in DOMAIN published :
    IsItemMsg(published[k]) =>
      /\ 1 <= published[k].current
      /\ published[k].current <= published[k].total
      /\ published[k].total = batch.videos

\* the last item of a listing of MaxItems items has been reported, one item as
\* a success and one as a failure
C13_Witness ==
  /\ batch.videos = MaxItems
  /\ \E k \in DOMAIN published :
       published[k].type = "success" /\ published[k].current \in Items
  /\ \E k \in DOMAIN published :
       published[k].type = "error" /\ published[k].current = MaxItems

\* C14: when cancelSession returns, no file named in the record's files set is
\* in storage, and a further cancelSession, which finds those files absent,
\* removes nothing more and leaves the files set as it is.
C14_CancelDeletesRegisteredOnce ==
  LET once == cancelSession(Cur)
      twice == cancelSession(once)
  IN /\ \A f \in once.storage : FileName(f) \notin Data(once).files
     /\ twice.storage = once.storage
     /\ Data(twice).files = Data(once).files

\* cancelSession has run twice on a record that holds a registered file, and
\* the file is gone
C14_Witness ==
  /\ cancelCalls = 2
  /\ sessionData # 0
  /\ recs[sessionData].cancelled
  /\ recs[sessionData].files # {}
  /\ \A f \in storage : FileName(f) \notin recs[sessionData].files

\* C15: a worker that has resolved with success names an artifact that is in
\* the files set of the session's record (files never shrinks), on every
\* success path.
C15_SuccessIsRegistered ==
  \A i \in Items :
    wk[i].outcome = "success" =>
      \E r \in DOMAIN recs : wk[i].outFile \in recs[r].files

\* the session is cancelled while item i's download child has exited with code
\* zero and its 'close' handler has not run yet, or while the settle delay runs
CancelledAfterExit(i) ==
  /\ sessionData # 0
  /\ recs[sessionData].cancelled
  /\ wk[i].outcome = "none"
  /\ \/ wk[i].settle
     \/ /\ wk[i].dlProc # 0
        /\ procs[wk[i].dlProc].st = "exited"
        /\ procs[wk[i].dlProc].code = 0
        /\ procs[wk[i].dlProc].hooked
        /\ ~wk[i].downloadComplete

\* C16: a worker whose session was cancelled after its child exited with code
\* zero (before the post-exit check, or during the settle delay) resolves with
\* a cancellation failure, registers no artifact and leaves none in storage
\* (the wall-clock ceiling not elapsing in that very window).
C16_CancelAfterExitHonoured ==
  [][ \A i \in Items :
        (CancelledAfterExit(i) /\ wk'[i].outcome # "none" /\ timeouts' = timeouts) =>
          /\ wk'[i].outcome = "Download cancelled"
          /\ \A r \in DOMAIN recs : recs'[r].files = recs[r].files
          /\ \A f \in storage' : f.base # wk[i].fileName ]_vars

\* the messages handed to sendWebSocketMessage in the step
Sent == SubSeq(published', Len(published) + 1, Len(published'))

\* C17: a message published while the connection most recently associated
\* with the session is open is delivered to that connection, whatever other
\* connections of the session did before.
C17_DeliversToLatestConnection ==
  [][ (Sent # << >> /\ conns # << >>
         /\ conns[Len(conns)].st = "open" /\ conns'[Len(conns)].st = "open")
      => conns'[Len(conns)].delivered = conns[Len(conns)].delivered \o Sent ]_vars

\* what connection c receives in the step (all of it for a new connection)
Received(c) ==
  IF c \in DOMAIN conns
  THEN SubSeq(conns'[c].delivered, Len(conns[c].delivered) + 1,
              Len(conns'[c].delivered))
  ELSE conns'[c].delivered

\* C18: a connection receives nothing but the welcome message on associating
\* and, while it is the open connection associated with the session, the
\* messages published in that step; a message published while no open
\* connection is associated reaches no connection, then or later.
C18_DroppedWhenNotConnected ==
  [][ \A c \in DOMAIN conns' :
        /\ c \in DOMAIN conns =>
             /\ Len(conns'[c].delivered) >= Len(conns[c].delivered)
             /\ SubSeq(conns'[c].delivered, 1, Len(conns[c].delivered))
                  = conns[c].delivered
             /\ Received(c) # << >> =>
                  (Received(c) = Sent /\ wsConnections = c /\ conns[c].st = "open")
        /\ c \notin DOMAIN conns => Received(c) = << Welcome >> ]_vars

\* a connection that associated after messages had been published (and
\* dropped) has received a later message
C18_Witness ==
  \E c \in DOMAIN conns :
    /\ Len(conns[c].delivered) >= 2
    /\ Len(published) > Len(conns[c].delivered)
    /\ wsConnections = c

\* C19: when the wall-clock timer of item i's download fires while the child
\* has not exited, the child is signalled and the worker resolves with the
\* timeout failure; that outcome never changes afterwards.
C19_TimeoutKillsAndSticks ==
  [][ \A i \in Items :
        /\ (wk[i].timer /\ ~wk'[i].timer /\ timeouts' # timeouts
              /\ procs[wk[i].dlProc].st = "running")
           => (procs'[wk[i].dlProc].killed /\ wk'[i].outcome = "Download timeout")
        /\ wk[i].outcome = "Download timeout"
           => wk'[i].outcome = "Download timeout" ]_vars

\* a worker resolved by its timeout while its child, signalled, is still alive
\* and the batch has gone on to the next item
C19_Witness ==
  \E i \in Items :
    /\ wk[i].outcome = "Download timeout"
    /\ procs[wk[i].dlProc].st = "running"
    /\ procs[wk[i].dlProc].killed
    /\ batch.i >= i

\* C20: a pending timeout timer of a worker belongs to a child that has
\* neither closed nor failed to start: the download timer is pending only while
\* the worker is unresolved and its 'close' and 'error' handlers have not run,
\* the metadata timer only while the pre-fetch is unresolved and its child has
\* not closed.  So none is pending, or fires, once the worker has completed.
C20_TimersClearedOnCompletion ==
  \A i \in Items :
    /\ wk[i].timer =>
         /\ wk[i].outcome = "none"
         /\ ~wk[i].downloadComplete
         /\ procs[wk[i].dlProc].st # "closed"
    /\ wk[i].metaTimer =>
         /\ ~wk[i].metaDone
         /\ procs[wk[i].metaProc].st # "closed"
    /\ wk[i].outcome \notin {"none", "Download timeout"} =>
         ~wk[i].timer /\ ~wk[i].metaTimer

\* every worker of a batch of MaxItems items has completed without a timeout
\* having fired, one through its 'close' handler and one by failing to start
C20_Witness ==
  /\ timeouts = 0
  /\ batch.videos = MaxItems
  /\ \A i \in Items : wk[i].outcome # "none" /\ procs[wk[i].metaProc].st = "closed"
  /\ \E i \in Items : wk[i].outcome = "Failed to start yt-dlp"
  /\ \E i \in Items : wk[i].outcome = "success"

\* C21: in a session never cancelled, a metadata pre-fetch that has not
\* resolved has its timeout pending, and whenever it resolves (with a title or
\* with nothing: failure, empty output, timeout) the worker, still unresolved,
\* spawns the download child; after a timeout the artifact name is the
\* generated identifier.
C21_MetadataNeverBlocksItem ==
  [][ \A i \in Items :
        /\ (cancelCalls = 0 /\ wk[i].metaProc # 0 /\ ~wk[i].metaDone) => wk[i].metaTimer
        /\ (cancelCalls' = 0 /\ ~wk[i].metaDone /\ wk'[i].metaDone) =>
             /\ wk'[i].dlProc # 0
             /\ procs'[wk'[i].dlProc].st = "running"
             /\ wk'[i].outcome = "none"
             /\ wk'[i].fileName \in {SafeId(i)} \cup { sanitizeFilename(x) : x \in RawTitles }
             /\ timeouts' # timeouts => wk'[i].fileName = SafeId(i) ]_vars

\* an item has succeeded under the generated identifier while its metadata
\* child, signalled by the metadata timeout, has still not exited
C21_Witness ==
  \E i \in Items :
    /\ cancelCalls = 0
    /\ wk[i].outcome = "success"
    /\ wk[i].outFile[1] = SafeId(i)
    /\ \E r \in DOMAIN recs : wk[i].outFile \in recs[r].files
    /\ procs[wk[i].metaProc].st = "running"
    /\ procs[wk[i].metaProc].killed

Failures ==
  { "Download timeout", "Failed to start yt-dlp", "yt-dlp failed with code",
    "Output file not found after download" }

\* C22: in a session never cancelled, when item k < N resolves with a failure
\* the batch publishes the error message of item k, then the progress message
\* of item k+1, and starts the worker of item k+1.
C22_ItemFailureContinues ==
  [][ \A k \in Items :
        (cancelCalls' = 0 /\ k < batch.total
           /\ wk[k].outcome = "none" /\ wk'[k].outcome \in Failures) =>
          /\ Len(published') = Len(published) + 2
          /\ published'[Len(published) + 1] =
               Msg("error", k, batch.total, 0, 0, wk'[k].outcome, "processBatchDownload")
          /\ published'[Len(published) + 2] =
               Msg("progress", k + 1, batch.total, 0, 0, "", "processBatchDownload")
          /\ wk'[k + 1].started
          /\ batch'.pc = "awaiting"
          /\ batch'.failed = batch.failed + 1 ]_vars

\* item 1 failed, and item 2 has succeeded after it
C22_Witness ==
  /\ cancelCalls = 0
  /\ batch.total = MaxItems
  /\ wk[1].outcome \in Failures
  /\ wk[MaxItems].outcome = "success"
  /\ batch.pc = "done"

\* the listing promise was rejected (child failed, exited non-zero or timed out)
ListingRejected == batch.plDone /\ batch.videos = -1

\* C23: when the playlist listing is rejected, the batch returns having
\* published exactly one error message and no start, progress, success or
\* complete message, and no worker is started.
C23_BatchFailureOneError ==
  ListingRejected =>
    /\ batch.pc = "done"
    /\ Len(published) = 1
    /\ published[1] =
         Msg("error", 0, 0, 0, 0, "Batch download failed", "processBatchDownload")
    /\ \A i \in Items : ~wk[i].started

\* the listing was rejected by its 60 s timer and the signalled child has
\* closed since
C23_Witness ==
  /\ ListingRejected
  /\ timeouts = 1
  /\ procs[batch.plProc].st = "closed"

\* a message that ends a batch for its subscriber
IsTerminal(m) == m.type = "complete" \/ (m.type = "error" /\ m.current = 0)

\* an event that can still move the batch on is to come: the exit or 'close' of
\* a child whose listeners are attached, or the end of a settle delay
InFlight ==
  \/ \E p \in DOMAIN procs : procs[p].st \in {"running", "exited"} /\ procs[p].hooked
  \/ \E i \in Items : wk[i].settle

\* C24: a started batch is either still to be moved on by an event of its
\* children and timers, or it has returned and a terminal message (complete,
\* or an error of the batch or of the cancellation) has been published.
C24_BatchEndsWithTerminal ==
  batch.pc # "idle" =>
    \/ batch.pc = "done" /\ \E k \in DOMAIN published : IsTerminal(published[k])
    \/ batch.pc # "done" /\ InFlight

\* the batch has returned through the check after a download (cancelled
\* meanwhile) without publishing a message of its own
C24_Witness ==
  /\ batch.pc = "done"
  /\ batch.total >= 1
  /\ \A k \in DOMAIN published : ByBatch(published[k]) => ~IsTerminal(published[k])
  /\ \E k \in DOMAIN published : ByCancel(published[k])

\* C25: the processes set of a session record holds only handles of children
\* whose exit has not been processed yet.
C25_ProcessesOnlyLive ==
  \A r \in DOMAIN recs : \A p \in recs[r].processes : procs[p].st # "closed"

\* the time of the most recent retention sweep (the eager one at 0 included)
LastSweep == clock - (clock % SweepIntervalMinutes)

\* C26: each run of the retention sweep, the eager one at start included,
\* removes every file older than the threshold and nothing else, whether or not
\* a session's record names the file: a file leaves storage only in a sweep
\* that finds it older than the threshold, and after a sweep no file older than
\* the threshold at that sweep is left.
C26_SweepRemovesExactlyOld ==
  [][ /\ \A f \in storage : LastSweep - f.mtime <= RetentionMinutes
      /\ \A f \in storage' : LastSweep' - f.mtime <= RetentionMinutes
      /\ \A f \in storage \ storage' :
           \/ \E g \in storage' : g.base = f.base /\ g.mtime = clock
           \/ /\ clock' % SweepIntervalMinutes = 0
              /\ clock' # clock
              /\ clock' - f.mtime > RetentionMinutes
      /\ (clock' # clock /\ clock' % SweepIntervalMinutes = 0) =>
           \A f \in storage : clock' - f.mtime <= RetentionMinutes => f \in storage' ]_vars

\* an interval sweep has removed a file that the session's record names,
\* and has left a younger file in place
C26_Witness ==
  /\ clock >= SweepIntervalMinutes
  /\ clock % SweepIntervalMinutes = 0
  /\ \E n \in recs[sessionData].files : ~Exists(Cur, n)
  /\ \E f \in storage : clock - f.mtime = RetentionMinutes

\* modified within the session's active window: since its start, and less
\* than 5 minutes before the cancel
InActiveWindow(f, data, now) ==
  f.mtime >= data.startTime /\ now - f.mtime < 5

\* C27: a cancelSession call removes a file only if the record names it in
\* files, or if it has a media extension and matches a recorded pattern or was
\* modified within the active window; every other file stays as it is.
C27_CancelFrame ==
  [][ cancelCalls' # cancelCalls =>
        LET data == recs'[sessionData'] IN
        /\ storage' \subseteq storage
        /\ \A f \in storage \ storage' :
             \/ FileName(f) \in data.files
             \/ /\ f.ext \in MediaExtensions
                /\ \/ matchesPattern(f, data.expectedFilePatterns)
                   \/ InActiveWindow(f, data, clock) ]_vars

\* a cancel has removed a registered file and left in place a media file
\* written during the session but more than 5 minutes ago, a media file older
\* than the session and a file without a media extension
C27_Witness ==
  /\ cancelCalls = 1
  /\ recs[1].files # {}
  /\ \A n \in recs[1].files : ~Exists(Cur, n)
  /\ [ base |-> << "z" >>, ext |-> "mp3", mtime |-> 1 ] \in storage
  /\ \E f \in storage : f.ext = "txt" /\ f.mtime = 4 /\ f.base = << "a", "b", "c" >>

\* C28: two distinct items never target the same artifact name.
C28_NoNameCollision ==
  \A i, j \in Items :
    (i # j /\ wk[i].dlProc # 0 /\ wk[j].dlProc # 0) => wk[i].fileName # wk[j].fileName

HasInvalid(str) == \E k \in DOMAIN str : str[k] \in InvalidChars

\* nothing but removed characters and whitespace
StripsToNothing(str) ==
  \A k \in DOMAIN str : str[k] \in InvalidChars \cup Whitespace

\* C29 as stated: for every title and maximum length the result is non-empty,
\* free of the nine invalid characters, at most maxLength characters long,
\* 'untitled' when stripping leaves nothing, and a fixed point of the function.
C29_SanitizeAsStated ==
  call.st = "twice" =>
    /\ call.result # << >>
    /\ ~HasInvalid(call.result)
    /\ Len(call.result) <= call.maxLength
    /\ StripsToNothing(call.title) => call.result = Untitled
    /\ call.again = call.result

\* C29 amended: the result is non-empty and free of the nine invalid
\* characters; it is 'untitled' when stripping (or cutting) leaves nothing, and
\* otherwise at most maxLength characters long; applied again, the function
\* returns the same string whenever the result is within maxLength.
C29_SanitizeAmended ==
  call.st = "twice" =>
    /\ call.result # << >>
    /\ ~HasInvalid(call.result)
    /\ call.result = Untitled \/ Len(call.result) <= call.maxLength
    /\ StripsToNothing(call.title) => call.result = Untitled
    /\ Len(call.result) <= call.maxLength => call.again = call.result

\* a title with an invalid character, a whitespace run and a trailing blank
\* after the cut has been sanitized twice, the cut having taken place
C29_Witness ==
  /\ call.st = "twice"
  /\ HasInvalid(call.title)
  /\ Len(call.result) = call.maxLength
  /\ Len(call.result) < Len(call.title) - 1
  /\ call.again = call.result

\* the download children spawned for item i
DownloadsOf(i) == { p \in DOMAIN procs : procs[p].kind = "dl" /\ procs[p].item = i }

\* C30: an item has at most one download child, its worker's outcome never
\* changes once it has resolved, and the batch never returns to an item it
\* has left: a failed item is not tried again.
C30_OneChildOneOutcome ==
  [][ \A i \in Items :
        /\ Cardinality(DownloadsOf(i)) <= 1
        /\ Cardinality(DownloadsOf(i)') <= 1
        /\ wk[i].outcome # "none" => wk'[i].outcome = wk[i].outcome
        /\ wk[i].started => wk'[i].started
        /\ batch.pc # "idle" => batch'.i >= batch.i ]_vars

\* the batch has returned; its first item failed after its one download child
\* had been spawned
C30_Witness ==
  /\ batch.pc = "done"
  /\ batch.total = MaxItems
  /\ wk[1].outcome \in Failures
  /\ Cardinality(DownloadsOf(1)) = 1
  /\ wk[MaxItems].outcome # "none"

\* a file that the fallback search of item i accepts: its name starts with the
\* artifact base name or the generated identifier, its extension is an audio one
IsFallbackMatch(f, i) ==
  /\ \/ StartsWith(FullName(f), wk[i].fileName)
     \/ StartsWith(FullName(f), SafeId(i))
  /\ f.ext \in {"mp3", "m4a", "opus", "webm"}

CompletePublished == \E k \in DOMAIN published : published[k].type = "complete"

\* a connection of the session is closed in the step
Disconnects == \E c \in DOMAIN conns : conns[c].st = "open" /\ conns'[c].st = "closed"

\* C32: a disconnect that happens after the batch has published complete, in a
\* session not cancelled before, does not cancel the session and leaves every
\* file in storage.
C32_DisconnectAfterCompleteKeeps ==
  [][ (Disconnects /\ CompletePublished /\ cancelCalls = 0) =>
        (cancelCalls' = 0 /\ storage' = storage) ]_vars

\* ------------------------------------------------------------- the client
\* the client's download status when it opens the socket (status 'processing')
NewClient == [ status |-> "processing", error |-> "", showNewDownload |-> FALSE, ws |-> TRUE ]

\* message.error?.includes('cancelled'), over the error texts the server sends
IncludesCancelled(error) == error \in {"Download cancelled by user", "Download cancelled"}

\* ws.onmessage: the first branch of the if / else-if chain that matches
onmessage(c, m) ==
  IF m.type = "start" THEN [c EXCEPT !.status = "processing", !.error = ""]
  ELSE IF m.type = "progress" THEN [c EXCEPT !.status = "downloading", !.error = ""]
  ELSE IF m.type = "success" THEN [c EXCEPT !.status = "downloading", !.error = ""]
  ELSE IF m.type = "error" THEN [c EXCEPT !.status = "downloading", !.error = m.error]
  ELSE IF m.type = "complete"
  THEN [c EXCEPT !.status = "completed", !.error = "", !.showNewDownload = TRUE, !.ws = FALSE]
  ELSE IF m.type = "cancelled" \/ (m.type = "error" /\ IncludesCancelled(m.error))
  THEN [c EXCEPT !.status = "failed", !.error = "Download cancelled",
                 !.showNewDownload = TRUE, !.ws = FALSE]
  ELSE c

RECURSIVE ClientAfter(_)
\* the client's state after handling the delivered messages in order; nothing
\* is handled once the client has closed its socket
ClientAfter(msgs) ==
  IF msgs = << >> THEN NewClient
  ELSE LET c == ClientAfter(SubSeq(msgs, 1, Len(msgs) - 1))
       IN IF c.ws THEN onmessage(c, msgs[Len(msgs)]) ELSE c

\* C33: when the client handles an error message whose text contains
\* 'cancelled', its status becomes 'failed' with error 'Download cancelled',
\* the new-download control is shown and the socket is closed; so it is not in
\* status 'downloading' after handling the server's cancellation message.
C33_ClientHandlesCancelled ==
  \A n \in DOMAIN conns : \A k \in DOMAIN conns[n].delivered :
    LET m == conns[n].delivered[k]
        before == ClientAfter(SubSeq(conns[n].delivered, 1, k - 1))
        after == ClientAfter(SubSeq(conns[n].delivered, 1, k))
    IN (before.ws /\ m.type = "error" /\ IncludesCancelled(m.error)) =>
         /\ after.status = "failed"
         /\ after.error = "Download cancelled"
         /\ after.showNewDownload
         /\ ~after.ws

\* ------------------------------------------------- two sessions, one directory
\* artifact names in the download directory: one of the cancelled session, one
\* of another session, one of a single extraction that has no session
OwnBase == << "a", "b", "c" >>
OtherBase == << "z" >>
SessionlessBase == << "y" >>

\* Session A (the record sessionData points to) has finished its batch; the
\* second record belongs to another session B, started at some time, that has
\* registered its artifact or not; the directory also holds the artifact of a
\* sessionless extraction.
InitSharedDir ==
  /\ clock = CancelTime
  /\ sessionData = 1
  /\ \E dir \in SUBSET { [ base |-> b, ext |-> "mp3", mtime |-> m ] :
                           b \in {OwnBase, OtherBase, SessionlessBase}, m \in DirMtimes } :
       /\ \A f, g \in dir : FileName(f) = FileName(g) => f = g
       /\ storage = dir
       /\ \E regA \in SUBSET { << OwnBase, "mp3" >> },
             regB \in SUBSET { FileName(f) : f \in { g \in dir : g.base = OtherBase } },
             startB \in DirMtimes :
            recs = << [NewRec(SessionStart) EXCEPT
                         !.files = regA, !.expectedFilePatterns = { SessionPattern }],
                      [NewRec(startB) EXCEPT
                         !.files = regB, !.expectedFilePatterns = { OtherBase }] >>
  /\ delTimers = << >>
  /\ procs = << >>
  /\ wk = [i \in 1..MaxItems |-> IdleWorker]
  /\ batch = [IdleBatch EXCEPT !.pc = "done"]
  /\ wsConnections = 0
  /\ conns = << >>
  /\ published = << >>
  /\ cancelCalls = 0
  /\ timeouts = 0
  /\ call = NoCall

SpecSharedDir == InitSharedDir /\ [][NextCancelFrame]_vars

\* C34: a cancelSession call of session A removes from storage neither an
\* artifact registered in the files set of the other, uncancelled session B
\* nor the artifact of a sessionless extraction.
C34_CancelSparesOthers ==
  [][ cancelCalls' # cancelCalls =>
        \A f \in storage \ storage' :
          /\ ~(FileName(f) \in recs[2].files /\ ~recs[2].cancelled)
          /\ f.base # SessionlessBase ]_vars

\* C35: the deferred removal scheduled by cancelSession deletes only a record
\* that has been cancelled, never a record created for the id afterwards and
\* not cancelled itself.
C35_RemovalOnlyOfCancelled ==
  [][ (sessionData # 0 /\ sessionData' = 0) => recs[sessionData].cancelled ]_vars

\* C36: after cancelSession has been called, no worker resolves with success
\* and no success message is published.
C36_NoSuccessAfterCancel ==
  [][ cancelCalls > 0 =>
        /\ \A i \in Items : wk'[i].outcome = "success" => wk[i].outcome = "success"
        /\ \A k \in DOMAIN Sent : Sent[k].type # "success" ]_vars

\* C37: when a connection that has been replaced by a newer connection of the
\* session closes, the session is not cancelled.
C37_ReplacedCloseNoCancel ==
  [][ \A c \in DOMAIN conns :
        (conns[c].st = "open" /\ conns'[c].st = "closed" /\ wsConnections # c) =>
          cancelCalls' = cancelCalls ]_vars

\* C38: every name in a files set is the artifact of a worker run that has
\* resolved with success.
C38_FilesOnlyFromSuccess ==
  \A r \in DOMAIN recs : \A n \in recs[r].files :
    \E i \in Items : wk[i].outcome = "success" /\ wk[i].outFile = n

\* the outcome messages (success or item error) the batch publishes in the step
OutcomesSent ==
  SelectSeq(Sent, LAMBDA m : IsItemMsg(m) /\ m.type \in {"success", "error"})

\* C39: when the outcome message of item k is published, successful + failed
\* = k and exactly one of the counters has grown by one (successful for a
\* success message, failed for an error message); in every other step both
\* counters keep their value, so they never decrease.
C39_CountersFollowOutcomes ==
  [][ IF OutcomesSent = << >>
      THEN batch'.successful = batch.successful /\ batch'.failed = batch.failed
      ELSE /\ Len(OutcomesSent) = 1
           /\ batch'.successful + batch'.failed = OutcomesSent[1].current
           /\ IF OutcomesSent[1].type = "success"
              THEN batch'.successful = batch.successful + 1 /\ batch'.failed = batch.failed
              ELSE batch'.failed = batch.failed + 1 /\ batch'.successful = batch.successful
    ]_vars

\* a batch has published its complete message after one item succeeded and
\* another failed
C39_Witness ==
  /\ batch.successful = 1 /\ batch.failed = 1
  /\ \E k \in DOMAIN published : published[k].type = "success"
  /\ \E k \in DOMAIN published : IsItemMsg(published[k]) /\ published[k].type = "error"
  /\ published[Len(published)].type = "complete"

====
